---- MODULE Spec2Model ----
(***************************************************************************)
(* A model of the EPL predictor: the offline data pipeline                 *)
(* (01_prepare_data.py), the training script's artifact writing            *)
(* (02_train_model.py) and the prediction service (app.py).                *)
(*                                                                         *)
(* Numbers.  Every statistic the code computes is a Python float obtained  *)
(* by dividing two small integers.  The model keeps such a value as the    *)
(* exact fraction [n, d] in lowest terms (d >= 1): two quotients of small  *)
(* integers are the same double exactly when they are the same fraction.   *)
(* Where the rounding of the double matters, the double of a fraction is   *)
(* computed in binary digits (53 significant digits, round to nearest      *)
(* even).                                                                  *)
(* A missing CSV cell (pandas NaN) is the empty string in a text column    *)
(* and a negative number in a numeric column.                              *)
(*                                                                         *)
(* Learning.  Fitting, scaling and classifying are the library's: a fitted *)
(* scaler or classifier is known by the pipeline run it was fitted on, the *)
(* number of features it was fitted with and the classes it has seen.  The  *)
(* probabilities a classifier gives are whole numbers of 1/10000, one per   *)
(* class it has seen, adding up to 10000; a returned percentage, rounded to *)
(* one decimal, is a whole number of tenths of a percent.                   *)
(***************************************************************************)
EXTENDS Integers, Sequences, FiniteSets, TLC

VARIABLES prep, disk, train, app, req, resp

vars == <<prep, disk, train, app, req, resp>>

\* ------------------------------------------------------------------------
\* Bounds of the model
\* ------------------------------------------------------------------------
MaxMatches == 2

None == "<None>"

EmptyMap == [x \in {} |-> 0]

\* ------------------------------------------------------------------------
\* Arithmetic on fractions
\* ------------------------------------------------------------------------
Abs(x) == IF x < 0 THEN -x ELSE x

\* a variant without the guard: the game count itself
MaxUnguarded(a, b) == a

Max(a, b) == IF a >= b THEN a ELSE b

RECURSIVE GCD(_, _)
GCD(a, b) == IF b = 0 THEN a ELSE GCD(b, a % b)

\* A division by zero (ZeroDivisionError on Python ints, inf or nan on numpy
\* numbers) is kept as a fraction with denominator 0.
Frac(n, d) ==
  IF d = 0 THEN [n |-> n, d |-> 0]
  ELSE LET g == GCD(Abs(n), d) IN [n |-> n \div g, d |-> d \div g]

\* a variant with the operands exchanged
FSubSwapped(x, y) == Frac(y.n * x.d - x.n * y.d, x.d * y.d)

FSub(x, y) == Frac(x.n * y.d - y.n * x.d, x.d * y.d)

\* ------------------------------------------------------------------------
\* Python floats (IEEE 754 doubles) in binary digits
\* ------------------------------------------------------------------------
\* A double in [0, 4) is the sequence of its binary digits: digit 1 counts 2,
\* digit 2 counts 1, digit 3 counts 1/2 and so on.  The digits kept are
\* enough for the doubles from 1/128 on.
Precision == 53

FractionDigits == Precision + 7

\* 2^k modulo d
RECURSIVE PowMod(_, _)
PowMod(k, d) ==
  IF k = 0 THEN 1 % d
  ELSE IF k % 2 = 0 THEN LET h == PowMod(k \div 2, d) IN (h * h) % d
       ELSE (2 * PowMod(k - 1, d)) % d

\* what is left to divide of r / d, 0 <= r < d, after k binary digits
QuotientRest(r, d, k) == (r * PowMod(k, d)) % d

\* the first k binary digits after the point of r / d
QuotientDigits(r, d, k) ==
  [i \in 1..k |-> IF 2 * QuotientRest(r, d, i - 1) >= d THEN 1 ELSE 0]

\* one added at digit i: a digit changes when all digits after it, up to
\* digit i, are 1
Increment(b, i) ==
  [j \in 1..Len(b) |->
     IF j <= i /\ \A k \in (j + 1)..i : b[k] = 1 THEN 1 - b[j] ELSE b[j]]

\* Rounding to Precision significant digits, to nearest and on a tie to the
\* even digit; inexact: the value has digits beyond those of b
RoundDouble(b, inexact) ==
  IF \A i \in 1..Len(b) : b[i] = 0 THEN b
  ELSE LET first == CHOOSE i \in 1..Len(b) : b[i] = 1 /\ \A j \in 1..(i - 1) : b[j] = 0
           last == first + Precision - 1
       IN IF last >= Len(b) THEN b
          ELSE LET kept == [i \in 1..Len(b) |-> IF i <= last THEN b[i] ELSE 0]
                   more == inexact \/ \E i \in (last + 2)..Len(b) : b[i] = 1
               IN IF b[last + 1] = 1 /\ (more \/ b[last] = 1)
                  THEN Increment(kept, last) ELSE kept

\* n / d of two numbers, 0 <= n < 4 * d: the double nearest to the quotient
FloatDiv(n, d) ==
  RoundDouble(<<(n \div d) \div 2, (n \div d) % 2>>
                \o QuotientDigits(n % d, d, FractionDigits),
              QuotientRest(n % d, d, FractionDigits) # 0)

\* the double a quotient kept as a fraction is in the program
DoubleOf(f) == FloatDiv(f.n, f.d)

\* ------------------------------------------------------------------------
\* 01_prepare_data.py: the input tables
\* ------------------------------------------------------------------------
NEEDED_COLS == <<"HomeTeam", "AwayTeam", "FTHG", "FTAG", "FTR", "HS", "AS", "HST", "AST">>

NAME_MAP == [t \in {"Man Utd"} |-> "Man United"]

RawNames == {"Arsenal", "Man Utd", "Man United"}

\* Score lines of a CSV row: goals, result cell, shots, shots on target.
\* The result cell is free text in the CSV: a valid code, another code, or empty.
ScoreLines ==
  { [FTHG |-> 2, FTAG |-> 0, FTR |-> "H", HS |-> 5, AS |-> 2, HST |-> 3, AST |-> 1],
    [FTHG |-> 1, FTAG |-> 1, FTR |-> "D", HS |-> 3, AS |-> 3, HST |-> 1, AST |-> 1],
    [FTHG |-> 0, FTAG |-> 1, FTR |-> "A", HS |-> 2, AS |-> 4, HST |-> 0, AST |-> 2],
    [FTHG |-> 1, FTAG |-> 0, FTR |-> "X", HS |-> 4, AS |-> 1, HST |-> 2, AST |-> 0],
    [FTHG |-> 1, FTAG |-> 2, FTR |-> "",  HS |-> 1, AS |-> 5, HST |-> 1, AST |-> 3] }

RawRows ==
  { [HomeTeam |-> h, AwayTeam |-> a, FTHG |-> s.FTHG, FTAG |-> s.FTAG, FTR |-> s.FTR,
     HS |-> s.HS, AS |-> s.AS, HST |-> s.HST, AST |-> s.AST] :
       h \in RawNames, a \in RawNames, s \in ScoreLines }

SeqsUpTo(S, n) == UNION { [1..k -> S] : k \in 1..n }

\* The column sets a loaded table can have: all needed columns, or one missing.
ColumnSets == { {NEEDED_COLS[i] : i \in 1..Len(NEEDED_COLS)} \cup {"Season"},
                ({NEEDED_COLS[i] : i \in 1..Len(NEEDED_COLS)} \cup {"Season"}) \ {"AST"} }

NeededSet == {NEEDED_COLS[i] : i \in 1..Len(NEEDED_COLS)}

\* pandas isna on one cell: an empty text cell, or a numeric cell with no number
IsNA(v, col) == IF col \in {"HomeTeam", "AwayTeam", "FTR"} THEN v = "" ELSE v < 0

\* line 266: df[["Season"] + NEEDED_COLS].dropna(subset=NEEDED_COLS)
dropna(rows) == SelectSeq(rows, LAMBDA m : \A c \in NeededSet : ~IsNA(m[c], c))

\* lines 288-289: Series.replace(NAME_MAP)
replace(name) == IF name \in DOMAIN NAME_MAP THEN NAME_MAP[name] ELSE name

MapNames(rows) ==
  [i \in 1..Len(rows) |->
     [rows[i] EXCEPT !.HomeTeam = replace(@), !.AwayTeam = replace(@)]]

\* ------------------------------------------------------------------------
\* 01_prepare_data.py: calculate_team_stats
\* ------------------------------------------------------------------------
\* a variant that takes the names of the home column only
TeamsOfHome(rows) == {rows[i].HomeTeam : i \in 1..Len(rows)}

\* line 309
TeamsOf(rows) ==
  {rows[i].HomeTeam : i \in 1..Len(rows)} \cup {rows[i].AwayTeam : i \in 1..Len(rows)}

\* a variant without the filter on the home team
home_matches_unfiltered(rows, team) == rows

home_matches(rows, team) == SelectSeq(rows, LAMBDA m : m.HomeTeam = team)

\* a variant that leaves out a match of a team against itself
away_matches_other(rows, team) ==
  SelectSeq(rows, LAMBDA m : m.AwayTeam = team /\ m.HomeTeam # team)

away_matches(rows, team) == SelectSeq(rows, LAMBDA m : m.AwayTeam = team)

\* a variant without the filter on the code
CountFTRAll(ms, code) == Len(ms)

\* len(matches[matches["FTR"] == code])
CountFTR(ms, code) == Len(SelectSeq(ms, LAMBDA m : m.FTR = code))

\* a variant that takes the column's first value (.iloc[0]) instead of its sum
ColSumFirst(ms, col) == IF ms = <<>> THEN 0 ELSE Head(ms)[col]

\* Series.sum() of one column, added up in row order
RECURSIVE ColSum(_, _)
ColSum(ms, col) == IF ms = <<>> THEN 0 ELSE Head(ms)[col] + ColSum(Tail(ms), col)

\* a variant whose away wins count the code "H" (the home block copied)
TeamLocalsAwayAsHome(rows, team) ==
  LET hm == home_matches(rows, team)
      am == away_matches(rows, team)
      home_wins == CountFTR(hm, "H")
      home_draws == CountFTR(hm, "D")
      home_games == Len(hm)
      away_wins == CountFTR(am, "H")
      away_draws == CountFTR(am, "D")
      away_games == Len(am)
      total_games == home_games + away_games
      total_wins == home_wins + away_wins
      total_draws == home_draws + away_draws
      total_losses == total_games - total_wins - total_draws
      goals_scored == ColSum(hm, "FTHG") + ColSum(am, "FTAG")
      goals_conceded == ColSum(hm, "FTAG") + ColSum(am, "FTHG")
      points == total_wins * 3 + total_draws
  IN [home_wins |-> home_wins, home_draws |-> home_draws, home_games |-> home_games,
      away_wins |-> away_wins, away_draws |-> away_draws, away_games |-> away_games,
      total_games |-> total_games, total_wins |-> total_wins,
      total_draws |-> total_draws, total_losses |-> total_losses,
      goals_scored |-> goals_scored, goals_conceded |-> goals_conceded,
      points |-> points]

\* lines 312-330: the local variables of one loop iteration
TeamLocals(rows, team) ==
  LET hm == home_matches(rows, team)
      am == away_matches(rows, team)
      home_wins == CountFTR(hm, "H")
      home_draws == CountFTR(hm, "D")
      home_games == Len(hm)
      away_wins == CountFTR(am, "A")
      away_draws == CountFTR(am, "D")
      away_games == Len(am)
      total_games == home_games + away_games
      total_wins == home_wins + away_wins
      total_draws == home_draws + away_draws
      total_losses == total_games - total_wins - total_draws
      goals_scored == ColSum(hm, "FTHG") + ColSum(am, "FTAG")
      goals_conceded == ColSum(hm, "FTAG") + ColSum(am, "FTHG")
      points == total_wins * 3 + total_draws
  IN [home_wins |-> home_wins, home_draws |-> home_draws, home_games |-> home_games,
      away_wins |-> away_wins, away_draws |-> away_draws, away_games |-> away_games,
      total_games |-> total_games, total_wins |-> total_wins,
      total_draws |-> total_draws, total_losses |-> total_losses,
      goals_scored |-> goals_scored, goals_conceded |-> goals_conceded,
      points |-> points]

\* lines 332-346: the record stored for one team
TeamFeatures(rows, team) ==
  LET L == TeamLocals(rows, team)
      hm == home_matches(rows, team)
      am == away_matches(rows, team)
  IN [win_rate |-> Frac(L.total_wins, Max(L.total_games, 1)),
      draw_rate |-> Frac(L.total_draws, Max(L.total_games, 1)),
      loss_rate |-> Frac(L.total_losses, Max(L.total_games, 1)),
      avg_goals_scored |-> Frac(L.goals_scored, Max(L.total_games, 1)),
      avg_goals_conceded |-> Frac(L.goals_conceded, Max(L.total_games, 1)),
      goal_difference |-> Frac(L.goals_scored - L.goals_conceded, Max(L.total_games, 1)),
      points_per_game |-> Frac(L.points, Max(L.total_games, 1)),
      home_win_rate |-> Frac(L.home_wins, Max(L.home_games, 1)),
      away_win_rate |-> Frac(L.away_wins, Max(L.away_games, 1)),
      home_goals_avg |-> IF L.home_games > 0
                         THEN Frac(ColSum(hm, "FTHG"), L.home_games) ELSE Frac(0, 1),
      away_goals_avg |-> IF L.away_games > 0
                         THEN Frac(ColSum(am, "FTAG"), L.away_games) ELSE Frac(0, 1),
      shots_avg |-> Frac(ColSum(hm, "HS") + ColSum(am, "AS"), Max(L.total_games, 1)),
      shots_on_target_avg |->
        Frac(ColSum(hm, "HST") + ColSum(am, "AST"), Max(L.total_games, 1))]

calculate_team_stats(rows) == [team \in TeamsOf(rows) |-> TeamFeatures(rows, team)]

\* the loop's local counters, kept per team to state properties of them
stats_locals(rows) == [team \in TeamsOf(rows) |-> TeamLocals(rows, team)]

\* ------------------------------------------------------------------------
\* 01_prepare_data.py: create_training_data
\* ------------------------------------------------------------------------
\* a variant with the codes of draw and away win exchanged
ResultCodeSwapped ==
  [c \in {"H", "D", "A"} |-> CASE c = "H" -> 0 [] c = "D" -> 2 [] c = "A" -> 1]

ResultCode == [c \in {"H", "D", "A"} |-> CASE c = "H" -> 0 [] c = "D" -> 1 [] c = "A" -> 2]

\* the keys of the row dict, in insertion order (lines 380-403)
TrainRowColumns ==
  <<"home_win_rate", "home_draw_rate", "home_avg_goals_scored",
    "home_avg_goals_conceded", "home_goal_diff", "home_ppg", "home_home_win_rate",
    "home_shots_avg", "home_sot_avg",
    "away_win_rate", "away_draw_rate", "away_avg_goals_scored",
    "away_avg_goals_conceded", "away_goal_diff", "away_ppg", "away_away_win_rate",
    "away_shots_avg", "away_sot_avg",
    "win_rate_diff", "ppg_diff", "goal_diff_diff", "attack_vs_defense",
    "defense_vs_attack", "result">>

\* lines 379-404: the row built for one match
TrainRow(hs, as_, ftr) ==
  [home_win_rate |-> hs.win_rate,
   home_draw_rate |-> hs.draw_rate,
   home_avg_goals_scored |-> hs.avg_goals_scored,
   home_avg_goals_conceded |-> hs.avg_goals_conceded,
   home_goal_diff |-> hs.goal_difference,
   home_ppg |-> hs.points_per_game,
   home_home_win_rate |-> hs.home_win_rate,
   home_shots_avg |-> hs.shots_avg,
   home_sot_avg |-> hs.shots_on_target_avg,
   away_win_rate |-> as_.win_rate,
   away_draw_rate |-> as_.draw_rate,
   away_avg_goals_scored |-> as_.avg_goals_scored,
   away_avg_goals_conceded |-> as_.avg_goals_conceded,
   away_goal_diff |-> as_.goal_difference,
   away_ppg |-> as_.points_per_game,
   away_away_win_rate |-> as_.away_win_rate,
   away_shots_avg |-> as_.shots_avg,
   away_sot_avg |-> as_.shots_on_target_avg,
   win_rate_diff |-> FSub(hs.win_rate, as_.win_rate),
   ppg_diff |-> FSub(hs.points_per_game, as_.points_per_game),
   goal_diff_diff |-> FSub(hs.goal_difference, as_.goal_difference),
   attack_vs_defense |-> FSub(hs.avg_goals_scored, as_.avg_goals_conceded),
   defense_vs_attack |-> FSub(as_.avg_goals_scored, hs.avg_goals_conceded),
   result |-> ResultCode[ftr]]

\* lines 374-375: the matches the loop does not skip
Kept(rows, ts) ==
  SelectSeq(rows, LAMBDA m : m.HomeTeam \in DOMAIN ts /\ m.AwayTeam \in DOMAIN ts)

\* line 403 raises KeyError on a result code that is not a key of the dict
TrainingRaises(rows, ts) ==
  \E i \in 1..Len(Kept(rows, ts)) : Kept(rows, ts)[i].FTR \notin DOMAIN ResultCode

\* lines 369-407; pd.DataFrame(rows) takes its columns from the row dicts
create_training_data(rows, ts) ==
  LET k == Kept(rows, ts)
  IN [columns |-> IF k = <<>> THEN <<>> ELSE TrainRowColumns,
      rows |-> [i \in 1..Len(k) |->
                  TrainRow(ts[k[i].HomeTeam], ts[k[i].AwayTeam], k[i].FTR)]]

\* ------------------------------------------------------------------------
\* app.py: the feature vector of one request
\* ------------------------------------------------------------------------
\* a variant whose away side reads the home-venue win rate
ServeFeaturesMirrored(hs, as_) ==
  [home_win_rate |-> hs.win_rate,
   home_draw_rate |-> hs.draw_rate,
   home_avg_goals_scored |-> hs.avg_goals_scored,
   home_avg_goals_conceded |-> hs.avg_goals_conceded,
   home_goal_diff |-> hs.goal_difference,
   home_ppg |-> hs.points_per_game,
   home_home_win_rate |-> hs.home_win_rate,
   home_shots_avg |-> hs.shots_avg,
   home_sot_avg |-> hs.shots_on_target_avg,
   away_win_rate |-> as_.win_rate,
   away_draw_rate |-> as_.draw_rate,
   away_avg_goals_scored |-> as_.avg_goals_scored,
   away_avg_goals_conceded |-> as_.avg_goals_conceded,
   away_goal_diff |-> as_.goal_difference,
   away_ppg |-> as_.points_per_game,
   away_away_win_rate |-> as_.home_win_rate,
   away_shots_avg |-> as_.shots_avg,
   away_sot_avg |-> as_.shots_on_target_avg,
   win_rate_diff |-> FSub(hs.win_rate, as_.win_rate),
   ppg_diff |-> FSub(hs.points_per_game, as_.points_per_game),
   goal_diff_diff |-> FSub(hs.goal_difference, as_.goal_difference),
   attack_vs_defense |-> FSub(hs.avg_goals_scored, as_.avg_goals_conceded),
   defense_vs_attack |-> FSub(as_.avg_goals_scored, hs.avg_goals_conceded)]

\* lines 91-115: the features dict
ServeFeatures(hs, as_) ==
  [home_win_rate |-> hs.win_rate,
   home_draw_rate |-> hs.draw_rate,
   home_avg_goals_scored |-> hs.avg_goals_scored,
   home_avg_goals_conceded |-> hs.avg_goals_conceded,
   home_goal_diff |-> hs.goal_difference,
   home_ppg |-> hs.points_per_game,
   home_home_win_rate |-> hs.home_win_rate,
   home_shots_avg |-> hs.shots_avg,
   home_sot_avg |-> hs.shots_on_target_avg,
   away_win_rate |-> as_.win_rate,
   away_draw_rate |-> as_.draw_rate,
   away_avg_goals_scored |-> as_.avg_goals_scored,
   away_avg_goals_conceded |-> as_.avg_goals_conceded,
   away_goal_diff |-> as_.goal_difference,
   away_ppg |-> as_.points_per_game,
   away_away_win_rate |-> as_.away_win_rate,
   away_shots_avg |-> as_.shots_avg,
   away_sot_avg |-> as_.shots_on_target_avg,
   win_rate_diff |-> FSub(hs.win_rate, as_.win_rate),
   ppg_diff |-> FSub(hs.points_per_game, as_.points_per_game),
   goal_diff_diff |-> FSub(hs.goal_difference, as_.goal_difference),
   attack_vs_defense |-> FSub(hs.avg_goals_scored, as_.avg_goals_conceded),
   defense_vs_attack |-> FSub(as_.avg_goals_scored, hs.avg_goals_conceded)]

\* the keys of the features dict, in insertion order (lines 92-114)
ServeSchema ==
  <<"home_win_rate", "home_draw_rate", "home_avg_goals_scored",
    "home_avg_goals_conceded", "home_goal_diff", "home_ppg", "home_home_win_rate",
    "home_shots_avg", "home_sot_avg",
    "away_win_rate", "away_draw_rate", "away_avg_goals_scored",
    "away_avg_goals_conceded", "away_goal_diff", "away_ppg", "away_away_win_rate",
    "away_shots_avg", "away_sot_avg",
    "win_rate_diff", "ppg_diff", "goal_diff_diff", "attack_vs_defense",
    "defense_vs_attack">>

\* line 118 raises KeyError on a column name that is not a key of features
ArrayRaises(features, cols) == \E i \in 1..Len(cols) : cols[i] \notin DOMAIN features

\* line 118: [features[col] for col in feature_cols]
FeatureArray(features, cols) == [i \in 1..Len(cols) |-> features[cols[i]]]

\* 02_train_model.py line 48: [c for c in df.columns if c != "result"]
SelectFeatureCols(columns) == SelectSeq(columns, LAMBDA c : c # "result")

\* ------------------------------------------------------------------------
\* State
\* ------------------------------------------------------------------------
\* A file that does not exist; a file holds the number of the pipeline run
\* that produced it and its content.
Absent == [gen |-> 0, data |-> None]

NoFiles ==
  [team_stats_json |-> Absent, training_data_csv |-> Absent,
   model_joblib |-> Absent, scaler_joblib |-> Absent,
   feature_cols_joblib |-> Absent, model_metadata_json |-> Absent]

PrepStart == [pc |-> "load", run |-> 1, df |-> [columns |-> {}, rows |-> <<>>],
              team_stats |-> EmptyMap, locals |-> EmptyMap,
              training_df |-> [columns |-> <<>>, rows |-> <<>>]]

TrainStart == [pc |-> "read", gen |-> 0, feature_cols |-> <<>>, classes |-> {}]

AppStopped == [pc |-> "stopped", model |-> Absent, scaler |-> Absent,
               feature_cols |-> Absent, team_stats |-> Absent, metadata |-> Absent]

NoReq == [body |-> None, home_team |-> None, away_team |-> None]

NoResp == [status |-> 0, error |-> "", X |-> <<>>, lookups |-> 0,
           transforms |-> 0, predicts |-> 0, gens |-> <<>>, prediction |-> None,
           probabilities |-> [home_win |-> 0, draw |-> 0, away_win |-> 0],
           class |-> 0, proba |-> <<>>]

\* ------------------------------------------------------------------------
\* 01_prepare_data.py: the script, step by step
\* ------------------------------------------------------------------------
\* lines 244-258: local files, download or embedded data give the table
LoadData(tables) ==
  /\ prep.pc = "load"
  /\ \E t \in tables : prep' = [prep EXCEPT !.pc = "check", !.df = t]
  /\ UNCHANGED <<disk, train, app, req, resp>>

\* lines 261-264: a missing column ends the script
ColumnCheck ==
  /\ prep.pc = "check"
  /\ prep' = [prep EXCEPT !.pc = IF NeededSet \subseteq prep.df.columns
                                 THEN "dropna" ELSE "exit"]
  /\ UNCHANGED <<disk, train, app, req, resp>>

\* line 266
DropNa ==
  /\ prep.pc = "dropna"
  /\ prep' = [prep EXCEPT !.pc = "map",
                          !.df = [columns |-> NeededSet \cup {"Season"},
                                  rows |-> dropna(prep.df.rows)]]
  /\ UNCHANGED <<disk, train, app, req, resp>>

\* lines 288-289
MapTeamNames ==
  /\ prep.pc = "map"
  /\ prep' = [prep EXCEPT !.pc = "stats", !.df.rows = MapNames(prep.df.rows)]
  /\ UNCHANGED <<disk, train, app, req, resp>>

\* line 351
CalculateTeamStats ==
  /\ prep.pc = "stats"
  /\ prep' = [prep EXCEPT !.pc = "training",
                          !.team_stats = calculate_team_stats(prep.df.rows),
                          !.locals = stats_locals(prep.df.rows)]
  /\ UNCHANGED <<disk, train, app, req, resp>>

\* line 410: the KeyError of line 403 ends the script before anything is saved
CreateTrainingData ==
  /\ prep.pc = "training"
  /\ IF TrainingRaises(prep.df.rows, prep.team_stats)
     THEN prep' = [prep EXCEPT !.pc = "KeyError"]
     ELSE prep' = [prep EXCEPT !.pc = "save",
                     !.training_df = create_training_data(prep.df.rows, prep.team_stats)]
  /\ UNCHANGED <<disk, train, app, req, resp>>

\* lines 423-427 (raw_matches.csv, which no script reads, is left out)
SaveOutputs ==
  /\ prep.pc = "save"
  /\ prep' = [prep EXCEPT !.pc = "done"]
  /\ disk' = [disk EXCEPT
                !.training_data_csv = [gen |-> prep.run, data |-> prep.training_df],
                !.team_stats_json = [gen |-> prep.run, data |-> prep.team_stats]]
  /\ UNCHANGED <<train, app, req, resp>>

\* ------------------------------------------------------------------------
\* 02_train_model.py
\* ------------------------------------------------------------------------
\* lines 41-50 and the fitting that follows: an absent file or a table without
\* rows (no "result" column) ends the script
ReadTrainingData ==
  /\ train.pc = "read"
  /\ disk.training_data_csv.gen > 0
  /\ LET csv == disk.training_data_csv IN
       IF csv.data.rows = <<>>
       THEN train' = [train EXCEPT !.pc = "KeyError"]
       ELSE train' = [pc |-> "dump_model", gen |-> csv.gen,
                      feature_cols |-> SelectFeatureCols(csv.data.columns),
                      classes |-> {csv.data.rows[i].result : i \in 1..Len(csv.data.rows)}]
  /\ UNCHANGED <<prep, disk, app, req, resp>>

\* ------------------------------------------------------------------------
\* The feature assembly of predict, applied to the saved snapshot
\* ------------------------------------------------------------------------
\* app.py lines 88-118 for one pair of teams of the snapshot
AssembleFeatures ==
  /\ prep.pc = "done"
  /\ train.pc = "dump_model"
  /\ resp.status = 0
  /\ \E home_team \in DOMAIN disk.team_stats_json.data,
        away_team \in DOMAIN disk.team_stats_json.data :
       /\ home_team # away_team
       /\ LET hs == disk.team_stats_json.data[home_team]
              as_ == disk.team_stats_json.data[away_team]
          IN /\ req' = [body |-> "object", home_team |-> home_team, away_team |-> away_team]
             /\ resp' = IF ArrayRaises(ServeFeatures(hs, as_), train.feature_cols)
                        THEN [NoResp EXCEPT !.status = 500, !.error = "KeyError",
                                            !.lookups = 2]
                        ELSE [NoResp EXCEPT !.status = 200, !.lookups = 2,
                                !.X = FeatureArray(ServeFeatures(hs, as_),
                                                   train.feature_cols)]
  /\ UNCHANGED <<prep, disk, train, app>>

\* ------------------------------------------------------------------------
\* The offline pipeline on bounded match tables
\* ------------------------------------------------------------------------
RawTables ==
  { [columns |-> c, rows |-> r] : c \in ColumnSets, r \in SeqsUpTo(RawRows, MaxMatches) }

InitPipeline ==
  /\ prep = PrepStart
  /\ disk = NoFiles
  /\ train = TrainStart
  /\ app = AppStopped
  /\ req = NoReq
  /\ resp = NoResp

NextPipeline ==
  \/ LoadData(RawTables)
  \/ ColumnCheck
  \/ DropNa
  \/ MapTeamNames
  \/ CalculateTeamStats
  \/ CreateTrainingData
  \/ SaveOutputs
  \/ ReadTrainingData
  \/ AssembleFeatures

SpecPipeline == InitPipeline /\ [][NextPipeline]_vars

\* ------------------------------------------------------------------------
\* The offline pipeline on the matches of one team over a season
\* ------------------------------------------------------------------------
\* Goals for and against of a team, match by match: ten games with five
\* wins, three draws and two losses, 10 goals scored and 5 conceded; and six
\* games with one win, four draws and one loss.
TenGames ==
  << [gf |-> 2, ga |-> 0], [gf |-> 2, ga |-> 0], [gf |-> 2, ga |-> 0],
     [gf |-> 1, ga |-> 0], [gf |-> 1, ga |-> 0],
     [gf |-> 1, ga |-> 1], [gf |-> 1, ga |-> 1], [gf |-> 0, ga |-> 0],
     [gf |-> 0, ga |-> 1], [gf |-> 0, ga |-> 2] >>

SixGames ==
  << [gf |-> 1, ga |-> 0], [gf |-> 1, ga |-> 1], [gf |-> 0, ga |-> 0],
     [gf |-> 1, ga |-> 1], [gf |-> 0, ga |-> 0], [gf |-> 0, ga |-> 1] >>

\* the team plays at home and away in turn
VenueOf(i) == IF i % 2 = 1 THEN "home" ELSE "away"

\* The CSV row of one game of the team, played at home or away; the result
\* code follows from the goals
SeasonRow(g, venue) ==
  LET home == IF venue = "home" THEN g.gf ELSE g.ga
      away == IF venue = "home" THEN g.ga ELSE g.gf
  IN [HomeTeam |-> IF venue = "home" THEN "Arsenal" ELSE "Man United",
      AwayTeam |-> IF venue = "home" THEN "Man United" ELSE "Arsenal",
      FTHG |-> home, FTAG |-> away,
      FTR |-> IF home > away THEN "H" ELSE IF home = away THEN "D" ELSE "A",
      HS |-> home + 3, AS |-> away + 3, HST |-> home + 1, AST |-> away + 1]

\* the table of the games of the numbers in S, in their order
SeasonTable(form, S) ==
  [columns |-> NeededSet \cup {"Season"},
   rows |-> [k \in 1..Cardinality(S) |->
               LET i == CHOOSE i \in S : Cardinality({j \in S : j <= i}) = k
               IN SeasonRow(form[i], VenueOf(i))]]

\* the tables of the games played so far, for any games of a season
SeasonTables ==
  UNION { { SeasonTable(form, S) : S \in (SUBSET (1..Len(form))) \ {{}} } :
            form \in {TenGames, SixGames} }

NextSeason ==
  \/ LoadData(SeasonTables)
  \/ ColumnCheck
  \/ DropNa
  \/ MapTeamNames
  \/ CalculateTeamStats
  \/ CreateTrainingData
  \/ SaveOutputs

SpecSeason == InitPipeline /\ [][NextSeason]_vars

\* ------------------------------------------------------------------------
\* 02_train_model.py: saving the artifacts (lines 239-254), one file at a time
\* ------------------------------------------------------------------------
DumpModel ==
  /\ train.pc = "dump_model"
  /\ train' = [train EXCEPT !.pc = "dump_scaler"]
  /\ disk' = [disk EXCEPT !.model_joblib =
                [gen |-> train.gen,
                 data |-> [n_features |-> Len(train.feature_cols),
                           classes |-> train.classes]]]
  /\ UNCHANGED <<prep, app, req, resp>>

DumpScaler ==
  /\ train.pc = "dump_scaler"
  /\ train' = [train EXCEPT !.pc = "dump_cols"]
  /\ disk' = [disk EXCEPT !.scaler_joblib =
                [gen |-> train.gen, data |-> [n_features |-> Len(train.feature_cols)]]]
  /\ UNCHANGED <<prep, app, req, resp>>

DumpFeatureCols ==
  /\ train.pc = "dump_cols"
  /\ train' = [train EXCEPT !.pc = "dump_meta"]
  /\ disk' = [disk EXCEPT !.feature_cols_joblib =
                [gen |-> train.gen, data |-> train.feature_cols]]
  /\ UNCHANGED <<prep, app, req, resp>>

DumpMetadata ==
  /\ train.pc = "dump_meta"
  /\ train' = [train EXCEPT !.pc = "done"]
  /\ disk' = [disk EXCEPT !.model_metadata_json =
                [gen |-> train.gen,
                 data |-> [n_features |-> Len(train.feature_cols),
                           feature_names |-> train.feature_cols]]]
  /\ UNCHANGED <<prep, app, req, resp>>

\* the script is run again on the training table of a later pipeline run
RunTrainAgain ==
  /\ train.pc \in {"done", "KeyError"}
  /\ disk.training_data_csv.gen > train.gen
  /\ train' = [train EXCEPT !.pc = "read"]
  /\ UNCHANGED <<prep, disk, app, req, resp>>

\* ------------------------------------------------------------------------
\* app.py: loading the artifacts at import (lines 32-45)
\* ------------------------------------------------------------------------
\* python app.py, or the restart of a running or crashed service; requests
\* in flight end with the process
StartApp ==
  /\ app.pc \in {"stopped", "serving", "FileNotFoundError"}
  /\ app' = [AppStopped EXCEPT !.pc = "load_model"]
  /\ req' = NoReq
  /\ resp' = NoResp
  /\ UNCHANGED <<prep, disk, train>>

\* Each load takes the file's content, or ends the import with
\* FileNotFoundError when the file does not exist.

\* line 33
LoadModel ==
  /\ app.pc = "load_model"
  /\ app' = IF disk.model_joblib.gen = 0
            THEN [app EXCEPT !.pc = "FileNotFoundError"]
            ELSE [app EXCEPT !.pc = "load_scaler", !.model = disk.model_joblib]
  /\ UNCHANGED <<prep, disk, train, req, resp>>

\* line 34
LoadScaler ==
  /\ app.pc = "load_scaler"
  /\ app' = IF disk.scaler_joblib.gen = 0
            THEN [app EXCEPT !.pc = "FileNotFoundError"]
            ELSE [app EXCEPT !.pc = "load_cols", !.scaler = disk.scaler_joblib]
  /\ UNCHANGED <<prep, disk, train, req, resp>>

\* line 35
LoadFeatureCols ==
  /\ app.pc = "load_cols"
  /\ app' = IF disk.feature_cols_joblib.gen = 0
            THEN [app EXCEPT !.pc = "FileNotFoundError"]
            ELSE [app EXCEPT !.pc = "load_stats", !.feature_cols = disk.feature_cols_joblib]
  /\ UNCHANGED <<prep, disk, train, req, resp>>

\* lines 37-38
LoadTeamStats ==
  /\ app.pc = "load_stats"
  /\ app' = IF disk.team_stats_json.gen = 0
            THEN [app EXCEPT !.pc = "FileNotFoundError"]
            ELSE [app EXCEPT !.pc = "load_meta", !.team_stats = disk.team_stats_json]
  /\ UNCHANGED <<prep, disk, train, req, resp>>

\* lines 40-45 and app.run: with the last file loaded the service answers
LoadMetadata ==
  /\ app.pc = "load_meta"
  /\ app' = IF disk.model_metadata_json.gen = 0
            THEN [app EXCEPT !.pc = "FileNotFoundError"]
            ELSE [app EXCEPT !.pc = "serving", !.metadata = disk.model_metadata_json]
  /\ UNCHANGED <<prep, disk, train, req, resp>>

\* line 43
TEAMS == DOMAIN app.team_stats.data

\* ------------------------------------------------------------------------
\* app.py: predict (lines 67-150)
\* ------------------------------------------------------------------------
\* Python truth value of data.get(key): None when the key is missing
Falsy(v) == v = None \/ v = ""

\* a variant without the check of line 82
ValidateNoSameTeamCheck(home_team, away_team, team_stats) ==
  IF Falsy(home_team) \/ Falsy(away_team) THEN "Please select both teams"
  ELSE IF home_team \notin DOMAIN team_stats \/ away_team \notin DOMAIN team_stats
       THEN "Unknown team selected"
  ELSE ""

\* a variant that rejects only when both names are unknown (and for or, line 84)
ValidateBothUnknown(home_team, away_team, team_stats) ==
  IF Falsy(home_team) \/ Falsy(away_team) THEN "Please select both teams"
  ELSE IF home_team = away_team THEN "Home and away teams must be different"
  ELSE IF home_team \notin DOMAIN team_stats /\ away_team \notin DOMAIN team_stats
       THEN "Unknown team selected"
  ELSE ""

\* lines 80-85: the error message of a rejected request, "" when it passes
Validate(home_team, away_team, team_stats) ==
  IF Falsy(home_team) \/ Falsy(away_team) THEN "Please select both teams"
  ELSE IF home_team = away_team THEN "Home and away teams must be different"
  ELSE IF home_team \notin DOMAIN team_stats \/ away_team \notin DOMAIN team_stats
       THEN "Unknown team selected"
  ELSE ""

\* a variant with the last two labels exchanged
outcomesSwapped == <<"Home Win", "Away Win", "Draw">>

\* line 127
outcomes == <<"Home Win", "Draw", "Away Win">>

Failure(error, lookups, transforms, predicts) ==
  [NoResp EXCEPT !.status = 500, !.error = error, !.lookups = lookups,
                 !.transforms = transforms, !.predicts = predicts]

\* classes_ of a fitted classifier: the labels it has seen, in ascending order
ClassesOf(model) == SelectSeq(<<0, 1, 2>>, LAMBDA c : c \in model.classes)

\* numpy argmax: the first position of the largest value
ArgMax(p) == CHOOSE i \in 1..Len(p) :
               /\ \A j \in 1..Len(p) : p[j] <= p[i]
               /\ \A j \in 1..(i - 1) : p[j] < p[i]

\* line 124: model.predict gives the class whose probability is largest
PredictClass(model, proba) == ClassesOf(model)[ArgMax(proba)]

\* a variant that cuts the digits off instead of rounding
Round1Truncate(p) == {p \div 10}

\* lines 132-134: round(float(p) * 100, 1), in tenths of a percent.  Python
\* rounds the double, so a value halfway between two tenths goes to the one
\* or the other with the double that stands for it.
Round1(p) ==
  IF p % 10 < 5 THEN {p \div 10}
  ELSE IF p % 10 > 5 THEN {p \div 10 + 1}
  ELSE {p \div 10, p \div 10 + 1}

RECURSIVE Roundings(_)
Roundings(proba) ==
  IF proba = <<>> THEN {<<>>}
  ELSE { <<x>> \o rest : x \in Round1(Head(proba)), rest \in Roundings(Tail(proba)) }

\* the percentages that can be returned for a distribution: equal
\* probabilities are the same double and round to the same tenth
Percentages(proba) ==
  { pct \in Roundings(proba) :
      \A i, j \in 1..Len(proba) : proba[i] = proba[j] => pct[i] = pct[j] }

\* lines 75-150 for one request; proba is what predict_proba gives for the
\* request's vector, one probability per class the classifier was fitted
\* on, and percent its rounded percentages.  An exception that leaves
\* the handler is the framework's 500 response.
Handle(r, g, proba, percent) ==
  IF r.body # "object" THEN Failure("AttributeError", 0, 0, 0)
  ELSE LET team_stats == g.team_stats.data
           error == Validate(r.home_team, r.away_team, team_stats)
       IN
    IF error # "" THEN [NoResp EXCEPT !.status = 400, !.error = error]
    ELSE IF r.home_team \notin DOMAIN team_stats THEN Failure("KeyError", 1, 0, 0)
    ELSE IF r.away_team \notin DOMAIN team_stats THEN Failure("KeyError", 2, 0, 0)
    ELSE LET features == ServeFeatures(team_stats[r.home_team], team_stats[r.away_team])
             cols == g.feature_cols.data
         IN
      IF ArrayRaises(features, cols) THEN Failure("KeyError", 2, 0, 0)
      ELSE IF Len(cols) # g.scaler.data.n_features THEN Failure("ValueError", 2, 1, 0)
      ELSE IF Len(cols) # g.model.data.n_features THEN Failure("ValueError", 2, 1, 1)
      ELSE IF Len(proba) < Len(outcomes) THEN Failure("IndexError", 2, 1, 2)
      ELSE LET prediction == PredictClass(g.model.data, proba) IN
           [status |-> 200, error |-> "", X |-> FeatureArray(features, cols),
            lookups |-> 2, transforms |-> 1, predicts |-> 2,
            gens |-> <<g.team_stats.gen, g.feature_cols.gen, g.scaler.gen, g.model.gen>>,
            prediction |-> outcomes[prediction + 1],
            probabilities |-> [home_win |-> percent[1], draw |-> percent[2],
                               away_win |-> percent[3]],
            class |-> prediction, proba |-> proba]

\* what a request body can carry: a JSON object, or JSON that is no object
Bodies == {"object", "null"}

\* values of a name in the body: key missing, empty, teams, a name of no team
NameInputs == {None, "", "Arsenal", "Man United", "Liverpool", "Atlantis"}

Requests ==
  { [body |-> "object", home_team |-> h, away_team |-> a] :
      h \in NameInputs, a \in NameInputs }
  \cup {[body |-> "null", home_team |-> None, away_team |-> None]}

\* Probabilities a classifier can give to a class, in 1/10000: values whose
\* percentage is a whole tenth, lies halfway between two tenths, or rounds
\* up or down
ProbaGrid == {0, 1995, 3333, 3335, 3366, 4001, 4004, 5000}

\* the distributions over n classes with probabilities of the grid
Distributions(n) ==
  IF n = 3
  THEN { d \in { <<a, b, 10000 - a - b>> : a \in ProbaGrid, b \in ProbaGrid } : d[3] >= 0 }
  ELSE IF n = 2 THEN { <<a, 10000 - a>> : a \in ProbaGrid }
  ELSE { <<10000>> }

AllDistributions == UNION { Distributions(n) : n \in 1..Len(outcomes) }

\* a classifier that is certain of one class
CertainDistributions ==
  UNION { { [i \in 1..n |-> IF i = k THEN 10000 ELSE 0] : k \in 1..n } : n \in 1..Len(outcomes) }

\* a variant that rounds the statistics of the two teams in place
PredictInPlace(dists) ==
  /\ app.pc = "serving"
  /\ resp.status = 0
  /\ \E r \in Requests,
        proba \in {d \in dists : Len(d) = Cardinality(app.model.data.classes)} :
       \E percent \in Percentages(proba) :
         /\ req' = r
         /\ resp' = Handle(r, app, proba, percent)
         /\ app' = IF resp'.status = 200
                    THEN [app EXCEPT !.team_stats.data[r.home_team].points_per_game =
                                       Frac(@.n \div @.d, 1)]
                    ELSE app
  /\ UNCHANGED <<prep, disk, train>>

\* POST /api/predict: one request is received and answered
Predict(dists) ==
  /\ app.pc = "serving"
  /\ resp.status = 0
  /\ \E r \in Requests,
        proba \in {d \in dists : Len(d) = Cardinality(app.model.data.classes)} :
       \E percent \in Percentages(proba) :
         /\ req' = r
         /\ resp' = Handle(r, app, proba, percent)
  /\ UNCHANGED <<prep, disk, train, app>>

\* the client has the response; the next request can follow
ResponseReceived ==
  /\ resp.status # 0
  /\ req' = NoReq
  /\ resp' = NoResp
  /\ UNCHANGED <<prep, disk, train, app>>

\* ------------------------------------------------------------------------
\* The deployed service, with the pipeline run again on later data
\* ------------------------------------------------------------------------
MaxRuns == 2

\* Matches of the embedded data; the table of run r holds the first r + 2
EmbeddedSample ==
  << [HomeTeam |-> "Arsenal", AwayTeam |-> "Man United", FTHG |-> 3, FTAG |-> 1,
      FTR |-> "H", HS |-> 18, AS |-> 8, HST |-> 8, AST |-> 4],
     [HomeTeam |-> "Man United", AwayTeam |-> "Arsenal", FTHG |-> 0, FTAG |-> 1,
      FTR |-> "A", HS |-> 8, AS |-> 16, HST |-> 3, AST |-> 7],
     [HomeTeam |-> "Man United", AwayTeam |-> "Arsenal", FTHG |-> 1, FTAG |-> 1,
      FTR |-> "D", HS |-> 9, AS |-> 9, HST |-> 3, AST |-> 3],
     [HomeTeam |-> "Liverpool", AwayTeam |-> "Man United", FTHG |-> 0, FTAG |-> 0,
      FTR |-> "D", HS |-> 12, AS |-> 8, HST |-> 4, AST |-> 3],
     [HomeTeam |-> "Arsenal", AwayTeam |-> "Liverpool", FTHG |-> 3, FTAG |-> 1,
      FTR |-> "H", HS |-> 16, AS |-> 12, HST |-> 7, AST |-> 5],
     [HomeTeam |-> "Liverpool", AwayTeam |-> "Arsenal", FTHG |-> 1, FTAG |-> 1,
      FTR |-> "D", HS |-> 14, AS |-> 12, HST |-> 6, AST |-> 5] >>

Min(a, b) == IF a <= b THEN a ELSE b

Feed(run) ==
  [columns |-> NeededSet \cup {"Season"},
   rows |-> SubSeq(EmbeddedSample, 1, Min(run + 2, Len(EmbeddedSample)))]

\* The feature list of the training script, and lists an artifact left by
\* another version of it can hold: two names exchanged, the last name absent
TrainedList == SelectFeatureCols(TrainRowColumns)

StoredLists ==
  { TrainedList,
    [i \in 1..Len(TrainedList) |->
       IF i = 7 THEN TrainedList[16] ELSE IF i = 16 THEN TrainedList[7]
       ELSE TrainedList[i]],
    SubSeq(TrainedList, 1, Len(TrainedList) - 1) }

\* The files of a deployment: a run of the pipeline on a table, with the
\* feature list l stored by the training script of that deployment
Files(rows, l) ==
  LET ts == calculate_team_stats(rows)
      csv == create_training_data(rows, ts)
  IN [team_stats_json |-> [gen |-> 1, data |-> ts],
      training_data_csv |-> [gen |-> 1, data |-> csv],
      model_joblib |-> [gen |-> 1,
                        data |-> [n_features |-> Len(l),
                                  classes |-> {csv.rows[i].result : i \in 1..Len(csv.rows)}]],
      scaler_joblib |-> [gen |-> 1, data |-> [n_features |-> Len(l)]],
      feature_cols_joblib |-> [gen |-> 1, data |-> l],
      model_metadata_json |-> [gen |-> 1,
                               data |-> [n_features |-> Len(l), feature_names |-> l]]]

Deployed(l) == Files(Feed(1).rows, l)

\* 01_prepare_data.py is run again
RunPrepareAgain ==
  /\ prep.pc \in {"done", "KeyError", "exit"}
  /\ prep.run < MaxRuns
  /\ prep' = [PrepStart EXCEPT !.run = prep.run + 1]
  /\ UNCHANGED <<disk, train, app, req, resp>>

Init ==
  /\ \E l \in StoredLists : disk = Deployed(l)
  /\ prep = [PrepStart EXCEPT !.pc = "done"]
  /\ train = [TrainStart EXCEPT !.pc = "done", !.gen = 1]
  /\ app = AppStopped
  /\ req = NoReq
  /\ resp = NoResp

Next ==
  \/ RunPrepareAgain
  \/ LoadData({Feed(prep.run)})
  \/ ColumnCheck
  \/ DropNa
  \/ MapTeamNames
  \/ CalculateTeamStats
  \/ CreateTrainingData
  \/ SaveOutputs
  \/ RunTrainAgain
  \/ ReadTrainingData
  \/ DumpModel
  \/ DumpScaler
  \/ DumpFeatureCols
  \/ DumpMetadata
  \/ StartApp
  \/ LoadModel
  \/ LoadScaler
  \/ LoadFeatureCols
  \/ LoadTeamStats
  \/ LoadMetadata
  \/ Predict(CertainDistributions)
  \/ ResponseReceived

Spec == Init /\ [][Next]_vars

\* ------------------------------------------------------------------------
\* The service of one deployment, with classifiers of any distribution
\* ------------------------------------------------------------------------
\* Tables of a deployment: the first table of the embedded data, and its
\* first two matches, none of them a draw
DeployedTables == {Feed(1).rows, SubSeq(EmbeddedSample, 1, 2)}

InitServe ==
  /\ \E rows \in DeployedTables : disk = Files(rows, TrainedList)
  /\ prep = [PrepStart EXCEPT !.pc = "done"]
  /\ train = [TrainStart EXCEPT !.pc = "done", !.gen = 1]
  /\ app = AppStopped
  /\ req = NoReq
  /\ resp = NoResp

NextServe ==
  \/ StartApp
  \/ LoadModel
  \/ LoadScaler
  \/ LoadFeatureCols
  \/ LoadTeamStats
  \/ LoadMetadata
  \/ Predict(AllDistributions)
  \/ ResponseReceived

SpecServe == InitServe /\ [][NextServe]_vars

\* ------------------------------------------------------------------------
\* Properties of the offline pipeline (SpecPipeline)
\* ------------------------------------------------------------------------
ValidCodes == {"H", "D", "A"}

\* calculate_team_stats has run on prep.df
StatsComputed == prep.pc \in {"training", "save", "done", "KeyError"}

RECURSIVE SetSum(_, _)
SetSum(S, f) ==
  IF S = {} THEN 0
  ELSE LET x == CHOOSE y \in S : TRUE IN f[x] + SetSum(S \ {x}, f)

Permute(rows, p) == [i \in 1..Len(rows) |-> rows[p[i]]]

\* C1: the vector the serving code assembles for a pair of teams has the
\* length, the names in the order, and the values of the training row for
\* that pair without its "result" column: of the row create_training_data
\* builds for the two records, and of every row it did build for a match of
\* that pairing.
C1_TrainServeSameVector ==
  resp.status \in {200, 500} =>
    LET ts == disk.team_stats_json.data
        hs == ts[req.home_team]
        as_ == ts[req.away_team]
        row == TrainRow(hs, as_, "H")
        names == SelectSeq(TrainRowColumns, LAMBDA c : c # "result")
        csv == disk.training_data_csv.data
        k == Kept(prep.df.rows, ts)
    IN /\ resp.status = 200
       /\ train.feature_cols = names
       /\ Len(resp.X) = Len(names)
       /\ \A i \in 1..Len(names) : resp.X[i] = row[names[i]]
       /\ \A j \in 1..Len(k) :
            (k[j].HomeTeam = req.home_team /\ k[j].AwayTeam = req.away_team)
              => \A i \in 1..Len(names) : resp.X[i] = csv.rows[j][csv.columns[i]]

\* C1 witness: a vector was assembled for a pairing that is a row of the
\* training table, with venue win rates that differ on the away side
C1_Witness ==
  /\ resp.status = 200
  /\ Len(resp.X) = 23
  /\ \E j \in 1..Len(prep.df.rows) :
       /\ prep.df.rows[j].HomeTeam = req.home_team
       /\ prep.df.rows[j].AwayTeam = req.away_team
  /\ LET as_ == disk.team_stats_json.data[req.away_team]
     IN as_.home_win_rate # as_.away_win_rate

\* C7: a match whose result code is not H, D or A is rejected by the
\* ingestion steps and is never in the table calculate_team_stats receives.
C7_InvalidCodeNeverAggregated ==
  StatsComputed => \A i \in 1..Len(prep.df.rows) : prep.df.rows[i].FTR \in ValidCodes

\* C8: calculate_team_stats counts a match as a win, a draw or a loss of a
\* team only if its result code is H, D or A: for every team the wins, draws
\* and losses add up to its matches with a valid code.
C8_InvalidCodeNotCoerced ==
  StatsComputed =>
    \A team \in DOMAIN prep.locals :
      LET L == prep.locals[team]
          valid == SelectSeq(prep.df.rows, LAMBDA m : m.FTR \in ValidCodes)
      IN L.total_wins + L.total_draws + L.total_losses
           = Len(SelectSeq(valid, LAMBDA m : m.HomeTeam = team))
             + Len(SelectSeq(valid, LAMBDA m : m.AwayTeam = team))

\* C9: the home and away game counts of all teams add up to twice the
\* number of matches, also when a match has the same team on both sides.
C9_GamesSumTwiceMatches ==
  StatsComputed =>
    SetSum(DOMAIN prep.locals,
           [t \in DOMAIN prep.locals |->
              prep.locals[t].home_games + prep.locals[t].away_games])
      = 2 * Len(prep.df.rows)

\* C9 witness: statistics computed over two matches, one of a team against itself
C9_Witness ==
  /\ StatsComputed
  /\ Len(prep.df.rows) = 2
  /\ \E i \in 1..2 : prep.df.rows[i].HomeTeam = prep.df.rows[i].AwayTeam
  /\ Cardinality(DOMAIN prep.locals) = 2

\* C10: the statistics computed from any reordering of the match table are
\* the statistics computed from the table: same teams, same record per team.
C10_OrderIndependent ==
  StatsComputed =>
    \A p \in Permutations(1..Len(prep.df.rows)) :
      calculate_team_stats(Permute(prep.df.rows, p)) = prep.team_stats

\* C10 witness: statistics computed over two different matches of the same
\* two teams, so that a reordering is a different table
C10_Witness ==
  /\ StatsComputed
  /\ Len(prep.df.rows) = 2
  /\ prep.df.rows[1] # prep.df.rows[2]
  /\ prep.df.rows[1].HomeTeam = prep.df.rows[2].AwayTeam
  /\ prep.df.rows[1].AwayTeam = prep.df.rows[2].HomeTeam
  /\ prep.df.rows[1].HomeTeam # prep.df.rows[1].AwayTeam

\* C11: the keys of the mapping calculate_team_stats returns are exactly the
\* names that occur as home or away team in the table, one record per name;
\* hence create_training_data skips no match of that table: every match has
\* both its teams in the mapping and the training table has a row per match.
C11_OneRecordPerName ==
  StatsComputed =>
    LET rows == prep.df.rows
        names == {rows[i].HomeTeam : i \in 1..Len(rows)}
                   \cup {rows[i].AwayTeam : i \in 1..Len(rows)}
    IN /\ DOMAIN prep.team_stats = names
       /\ \A i \in 1..Len(rows) :
            rows[i].HomeTeam \in DOMAIN prep.team_stats
              /\ rows[i].AwayTeam \in DOMAIN prep.team_stats
       /\ prep.pc \in {"save", "done"} => Len(prep.training_df.rows) = Len(rows)

\* C11 witness: the training table was built from two matches, one of them
\* with an away team that is never a home team
C11_Witness ==
  /\ prep.pc = "done"
  /\ Len(prep.df.rows) = 2
  /\ Len(prep.training_df.rows) = 2
  /\ \E i \in 1..2 : \A j \in 1..2 : prep.df.rows[j].HomeTeam # prep.df.rows[i].AwayTeam

\* the fraction z is the difference x - y
IsDifference(z, x, y) == z.d > 0 /\ z.n * x.d * y.d = (x.n * y.d - y.n * x.d) * z.d

\* The nine statistics of the home block, and the away block with a given
\* statistic in its seventh place
NineOf(s, seventh) ==
  <<s.win_rate, s.draw_rate, s.avg_goals_scored, s.avg_goals_conceded,
    s.goal_difference, s.points_per_game, seventh, s.shots_avg, s.shots_on_target_avg>>

\* v holds the two blocks and then the five differentials of hs and as_
IsVector(v, hs, as_, awaySeventh) ==
  /\ Len(v) = 23
  /\ SubSeq(v, 1, 9) = NineOf(hs, hs.home_win_rate)
  /\ SubSeq(v, 10, 18) = NineOf(as_, awaySeventh)
  /\ IsDifference(v[19], hs.win_rate, as_.win_rate)
  /\ IsDifference(v[20], hs.points_per_game, as_.points_per_game)
  /\ IsDifference(v[21], hs.goal_difference, as_.goal_difference)
  /\ IsDifference(v[22], hs.avg_goals_scored, as_.avg_goals_conceded)
  /\ IsDifference(v[23], as_.avg_goals_scored, hs.avg_goals_conceded)

\* the values of training row j in the order of the table's columns, the
\* label left out
TrainingVector(j) ==
  LET csv == prep.training_df
  IN [i \in 1..(Len(csv.columns) - 1) |-> csv.rows[j][csv.columns[i]]]

\* C14 as stated: the vector has 23 fields, the nine home statistics, then
\* the same nine statistics (home_win_rate among them) of the away team,
\* then the five differentials; in the training rows and in the vector
\* assembled for a request.
C14_AwayBlockSameNine ==
  /\ prep.pc \in {"save", "done"} =>
       \A j \in 1..Len(prep.training_df.rows) :
         LET hs == prep.team_stats[prep.df.rows[j].HomeTeam]
             as_ == prep.team_stats[prep.df.rows[j].AwayTeam]
         IN IsVector(TrainingVector(j), hs, as_, as_.home_win_rate)
  /\ resp.status = 200 =>
       LET hs == disk.team_stats_json.data[req.home_team]
           as_ == disk.team_stats_json.data[req.away_team]
       IN IsVector(resp.X, hs, as_, as_.home_win_rate)

\* C14, amended: the seventh statistic of the away block is the away team's
\* away_win_rate; the vector has 23 fields, the nine home statistics, the
\* away team's win_rate, draw_rate, avg_goals_scored, avg_goals_conceded,
\* goal_difference, points_per_game, away_win_rate, shots_avg and
\* shots_on_target_avg, then the five differentials; in the training rows
\* and in the vector assembled for a request.
C14_AwayBlockAwayWinRate ==
  /\ prep.pc \in {"save", "done"} =>
       \A j \in 1..Len(prep.training_df.rows) :
         LET hs == prep.team_stats[prep.df.rows[j].HomeTeam]
             as_ == prep.team_stats[prep.df.rows[j].AwayTeam]
         IN IsVector(TrainingVector(j), hs, as_, as_.away_win_rate)
  /\ resp.status = 200 =>
       LET hs == disk.team_stats_json.data[req.home_team]
           as_ == disk.team_stats_json.data[req.away_team]
       IN IsVector(resp.X, hs, as_, as_.away_win_rate)

\* C14 witness: a vector assembled for two teams of a saved table, the away
\* team with different win rates at the two venues and the two teams with
\* different win rates and goal averages
C14_Witness ==
  /\ resp.status = 200
  /\ prep.pc = "done"
  /\ Len(prep.training_df.rows) = 2
  /\ LET hs == disk.team_stats_json.data[req.home_team]
         as_ == disk.team_stats_json.data[req.away_team]
     IN /\ as_.home_win_rate # as_.away_win_rate
        /\ hs.win_rate # as_.win_rate
        /\ hs.avg_goals_scored # as_.avg_goals_conceded
        /\ resp.X[19] # [n |-> 0, d |-> 1]

\* C13: no rate or average divides by zero, and one whose game count is zero
\* is 0: a team without home matches has home_win_rate = home_goals_avg = 0,
\* a team without away matches has away_win_rate = away_goals_avg = 0, and
\* the record computed for a name without any match in the table has
\* win_rate = avg_goals_scored = goal_difference = 0.
C13_ZeroGamesGuarded ==
  StatsComputed =>
    LET rows == prep.df.rows
        Zero == [n |-> 0, d |-> 1]
        AtHome(t) == {i \in 1..Len(rows) : rows[i].HomeTeam = t}
        Away(t) == {i \in 1..Len(rows) : rows[i].AwayTeam = t}
    IN /\ \A team \in DOMAIN prep.team_stats :
            LET r == prep.team_stats[team]
            IN /\ \A f \in DOMAIN r : r[f].d > 0
               /\ AtHome(team) = {} => (r.home_win_rate = Zero /\ r.home_goals_avg = Zero)
               /\ Away(team) = {} => (r.away_win_rate = Zero /\ r.away_goals_avg = Zero)
               /\ (AtHome(team) = {} /\ Away(team) = {})
                    => (r.win_rate = Zero /\ r.avg_goals_scored = Zero
                        /\ r.goal_difference = Zero)
       /\ \A name \in RawNames :
            (AtHome(name) = {} /\ Away(name) = {})
              => LET r == TeamFeatures(rows, name)
                 IN /\ \A f \in DOMAIN r : r[f].d > 0
                    /\ r.win_rate = Zero /\ r.avg_goals_scored = Zero
                    /\ r.goal_difference = Zero

\* C13 witness: statistics computed for a team that only played away and a
\* team that only played at home, with a name left that played no match
C13_Witness ==
  /\ StatsComputed
  /\ \E t \in DOMAIN prep.locals :
       prep.locals[t].home_games = 0 /\ prep.locals[t].away_games > 0
  /\ \E t \in DOMAIN prep.locals :
       prep.locals[t].away_games = 0 /\ prep.locals[t].home_games > 0
  /\ \E name \in RawNames : name \notin DOMAIN prep.team_stats

\* the table without its rows of the numbers in I
RECURSIVE Without(_, _)
Without(rows, I) ==
  IF rows = <<>> THEN <<>>
  ELSE LET front == Without(SubSeq(rows, 1, Len(rows) - 1), I)
       IN IF Len(rows) \in I THEN front ELSE Append(front, rows[Len(rows)])

\* C18: the record of a team depends on its own matches only: it is the
\* record computed from the table without any of the matches in which the
\* team is neither the home nor the away team.
C18_OwnMatchesOnly ==
  StatsComputed =>
    \A team \in DOMAIN prep.team_stats :
      LET rows == prep.df.rows
          others == {i \in 1..Len(rows) :
                       rows[i].HomeTeam # team /\ rows[i].AwayTeam # team}
      IN \A E \in SUBSET others :
           TeamFeatures(Without(rows, E), team) = prep.team_stats[team]

\* C18 witness: statistics computed for a team over a table that also has a
\* match without that team
C18_Witness ==
  /\ StatsComputed
  /\ Len(prep.df.rows) = 2
  /\ \E team \in DOMAIN prep.team_stats :
       /\ prep.df.rows[1].HomeTeam = team
       /\ prep.df.rows[1].AwayTeam # team
       /\ prep.df.rows[2].HomeTeam # team
       /\ prep.df.rows[2].AwayTeam # team

\* ------------------------------------------------------------------------
\* Properties of the statistics of a season (SpecSeason)
\* ------------------------------------------------------------------------
\* the fraction f is the quotient n / d
IsQuotient(f, n, d) == d > 0 /\ f.d > 0 /\ f.n * d = n * f.d

\* the matches of the table, by row number, with the team at home and away
HomeRows(team) == {i \in 1..Len(prep.df.rows) : prep.df.rows[i].HomeTeam = team}

AwayRows(team) == {i \in 1..Len(prep.df.rows) : prep.df.rows[i].AwayTeam = team}

WithCode(I, code) == {i \in I : prep.df.rows[i].FTR = code}

Goals(I, col) == SetSum(I, [i \in I |-> prep.df.rows[i][col]])

\* C12: for every team, wins are its home matches with code H plus its away
\* matches with code A, draws its matches with code D at either venue, and
\* win_rate = wins/games, draw_rate = draws/games, loss_rate = losses/games,
\* goal_difference = (scored - conceded)/games and points_per_game =
\* (3*wins + draws)/max(games, 1); five wins, three draws and two losses
\* with 10 goals scored and 5 conceded over 10 games give 0.5, 0.3, 0.2, 0.5
\* and 1.8.
C12_RatesFromCounts ==
  StatsComputed =>
    \A team \in DOMAIN prep.team_stats :
      LET H == HomeRows(team)
          A == AwayRows(team)
          games == Cardinality(H) + Cardinality(A)
          wins == Cardinality(WithCode(H, "H")) + Cardinality(WithCode(A, "A"))
          draws == Cardinality(WithCode(H, "D")) + Cardinality(WithCode(A, "D"))
          losses == Cardinality(WithCode(H, "A")) + Cardinality(WithCode(A, "H"))
          scored == Goals(H, "FTHG") + Goals(A, "FTAG")
          conceded == Goals(H, "FTAG") + Goals(A, "FTHG")
          r == prep.team_stats[team]
      IN /\ IsQuotient(r.win_rate, wins, games)
         /\ IsQuotient(r.draw_rate, draws, games)
         /\ IsQuotient(r.loss_rate, losses, games)
         /\ IsQuotient(r.goal_difference, scored - conceded, games)
         /\ IsQuotient(r.points_per_game, 3 * wins + draws, IF games >= 1 THEN games ELSE 1)
         /\ (wins = 5 /\ draws = 3 /\ losses = 2 /\ scored = 10 /\ conceded = 5)
              => /\ r.win_rate = [n |-> 1, d |-> 2]
                 /\ r.draw_rate = [n |-> 3, d |-> 10]
                 /\ r.loss_rate = [n |-> 1, d |-> 5]
                 /\ r.goal_difference = [n |-> 1, d |-> 2]
                 /\ r.points_per_game = [n |-> 9, d |-> 5]

\* C12 witness: the statistics of a team with five wins, three draws and two
\* losses, 10 goals scored and 5 conceded, with wins both at home and away
C12_Witness ==
  /\ StatsComputed
  /\ "Arsenal" \in DOMAIN prep.locals
  /\ LET L == prep.locals["Arsenal"]
     IN /\ L.total_games = 10 /\ L.total_wins = 5 /\ L.total_draws = 3
        /\ L.goals_scored = 10 /\ L.goals_conceded = 5
        /\ L.home_wins > 0 /\ L.away_wins > 0
  /\ prep.team_stats["Arsenal"].points_per_game = [n |-> 9, d |-> 5]

\* the carry into digit i of x + y: a digit after i where both have a 1,
\* and one 1 at every digit between
Carry(x, y, i) ==
  \E j \in (i + 1)..Len(x) :
    x[j] + y[j] = 2 /\ \A k \in (i + 1)..(j - 1) : x[k] + y[k] = 1

\* the digits of x + y
SumDigits(x, y) ==
  [i \in 1..Len(x) |-> (x[i] + y[i] + IF Carry(x, y, i) THEN 1 ELSE 0) % 2]

\* x + y of two doubles with a sum below 4
FloatAdd(x, y) == RoundDouble(SumDigits(x, y), FALSE)

\* x <= y
FloatLE(x, y) ==
  x = y \/ \E i \in 1..Len(x) : x[i] < y[i] /\ \A j \in 1..(i - 1) : x[j] = y[j]

\* the doubles 1.0, 3.0, the largest below 1.0 and the smallest above 1.0
One == FloatDiv(1, 1)

Three == FloatDiv(3, 1)

OneBelow == [i \in 1..Len(One) |-> IF i \in 3..(Precision + 2) THEN 1 ELSE 0]

OneAbove == [i \in 1..Len(One) |-> IF i \in {2, Precision + 1} THEN 1 ELSE 0]

\* calculate_team_stats has just returned, for a table with valid codes only
ValidStats ==
  /\ prep.pc = "training"
  /\ \A i \in 1..Len(prep.df.rows) : prep.df.rows[i].FTR \in ValidCodes

\* the loss count of the team is not negative, its three rates lie in
\* [0, 1] and its points per game in [0, 3]
RatesInRange(team) ==
  LET r == prep.team_stats[team]
  IN /\ prep.locals[team].total_losses >= 0
     /\ \A f \in {"win_rate", "draw_rate", "loss_rate", "points_per_game"} :
          r[f].n >= 0 /\ r[f].d > 0
     /\ \A f \in {"win_rate", "draw_rate", "loss_rate"} : FloatLE(DoubleOf(r[f]), One)
     /\ FloatLE(DoubleOf(r.points_per_game), Three)

\* win_rate + draw_rate + loss_rate of the team, added as doubles
RateSum(team) ==
  LET r == prep.team_stats[team]
  IN FloatAdd(FloatAdd(DoubleOf(r.win_rate), DoubleOf(r.draw_rate)), DoubleOf(r.loss_rate))

\* C20 as stated: for every team with a game, in a table with valid codes
\* only, the loss count is not negative, the three rates lie in [0, 1] and
\* add up to exactly 1, and points_per_game lies in [0, 3].
C20_RatesSumExactlyOne ==
  ValidStats =>
    \A team \in DOMAIN prep.team_stats :
      prep.locals[team].total_games >= 1
        => (RatesInRange(team) /\ RateSum(team) = One)

\* C20, amended: the loss count is not negative, the three rates lie in
\* [0, 1], points_per_game lies in [0, 3], wins, draws and losses add up to
\* the games, and the three rates as stored, added as doubles, give 1.0 or
\* one of the two doubles next to it.
C20_RatesSumRounded ==
  ValidStats =>
    \A team \in DOMAIN prep.team_stats :
      prep.locals[team].total_games >= 1
        => /\ RatesInRange(team)
           /\ LET L == prep.locals[team]
              IN L.total_wins + L.total_draws + L.total_losses = L.total_games
           /\ RateSum(team) \in {OneBelow, One, OneAbove}

\* C20 witness: the statistics of a team with one win, four draws and one
\* loss in six games, whose rates as doubles do not add up to 1.0
C20_Witness ==
  /\ ValidStats
  /\ "Arsenal" \in DOMAIN prep.locals
  /\ LET L == prep.locals["Arsenal"]
     IN L.total_games = 6 /\ L.total_wins = 1 /\ L.total_draws = 4 /\ L.total_losses = 1
  /\ RateSum("Arsenal") = OneBelow

\* ------------------------------------------------------------------------
\* Properties of the prediction service (Spec)
\* ------------------------------------------------------------------------
Answered == resp.status # 0

\* C2: a stored feature list that differs in length or order from the schema
\* of the serving code makes loading fail: a service that got to answer
\* requests holds the list of that schema.
C2_ContractCheckedAtLoad ==
  app.pc = "serving" => app.feature_cols.data = ServeSchema

\* C3: every answered prediction read the statistics snapshot, the feature
\* list, the scaler and the classifier of one and the same generation.
C3_OneGenerationPerRequest ==
  resp.status = 200 =>
    \A i, j \in 1..Len(resp.gens) : resp.gens[i] = resp.gens[j]

\* C4: a request naming the same non-empty team twice is answered 400, with
\* no scaler transform and no classifier call, for a known or unknown team.
C4_SameTeamRejected ==
  (/\ Answered
   /\ req.body = "object"
   /\ ~Falsy(req.home_team)
   /\ req.home_team = req.away_team)
    => (resp.status = 400 /\ resp.transforms = 0 /\ resp.predicts = 0)

\* C4 witness: a known team against itself was rejected
C4_Witness ==
  /\ resp.status = 400
  /\ req.home_team = "Arsenal"
  /\ req.away_team = "Arsenal"
  /\ "Arsenal" \in TEAMS
  /\ resp.error = "Home and away teams must be different"

\* C5: a request with a non-empty name that is no key of the loaded snapshot
\* is answered 400, with no statistics lookup, no scaler transform and no
\* classifier call.
C5_UnknownTeamRejected ==
  (/\ Answered
   /\ req.body = "object"
   /\ \/ (~Falsy(req.home_team) /\ req.home_team \notin TEAMS)
      \/ (~Falsy(req.away_team) /\ req.away_team \notin TEAMS))
    => (/\ resp.status = 400
        /\ resp.lookups = 0 /\ resp.transforms = 0 /\ resp.predicts = 0)

\* C5 witness: a known home team against an unknown away team was rejected
C5_Witness ==
  /\ resp.status = 400
  /\ req.home_team \in TEAMS
  /\ ~Falsy(req.away_team)
  /\ req.away_team \notin TEAMS
  /\ resp.error = "Unknown team selected"

\* C6: a request whose home or away name is missing or empty, or whose body
\* is no JSON object, is answered with a validation error (400) and no
\* classifier call; the handler raises no exception.
C6_MissingNamesReported ==
  (/\ Answered
   /\ (req.body # "object" \/ Falsy(req.home_team) \/ Falsy(req.away_team)))
    => (resp.status = 400 /\ resp.predicts = 0)

\* C17: predict changes nothing it shares: whatever a request gets as its
\* answer, a step of a service that answers requests leaves the classifier,
\* the scaler, the feature list, the statistics snapshot (and the team list
\* taken from it) and the metadata as they were loaded.
C17_PredictStateless ==
  [][(app.pc = "serving" /\ app'.pc = "serving") => app' = app]_vars

\* C17 witness: requests were answered, the last one with a prediction, by a
\* service that still holds the snapshot it loaded while a later one is on disk
C17_Witness ==
  /\ app.pc = "serving"
  /\ resp.status = 200
  /\ app.team_stats.gen < disk.team_stats_json.gen
  /\ app.team_stats.data # disk.team_stats_json.data

\* C19: the training table has one row per match, labelled 0 for code H, 1
\* for D and 2 for A; a prediction reports class 0 as Home Win with its
\* probability under home_win, class 1 as Draw under draw and class 2 as
\* Away Win under away_win.
C19_EncodingConsistent ==
  /\ prep.pc \in {"save", "done"} =>
       /\ Len(prep.training_df.rows) = Len(prep.df.rows)
       /\ \A j \in 1..Len(prep.df.rows) :
            LET code == prep.df.rows[j].FTR
                label == prep.training_df.rows[j].result
            IN /\ code = "H" => label = 0
               /\ code = "D" => label = 1
               /\ code = "A" => label = 2
  /\ resp.status = 200 =>
       LET classes == ClassesOf(app.model.data)
           P(c) == resp.proba[CHOOSE i \in 1..Len(classes) : classes[i] = c]
       IN /\ resp.class = 0 => resp.prediction = "Home Win"
          /\ resp.class = 1 => resp.prediction = "Draw"
          /\ resp.class = 2 => resp.prediction = "Away Win"
          /\ resp.probabilities.home_win \in Round1(P(0))
          /\ resp.probabilities.draw \in Round1(P(1))
          /\ resp.probabilities.away_win \in Round1(P(2))

\* C19 witness: a later run of the pipeline has saved a table with matches of
\* all three codes, and a request was answered with an away win
C19_Witness ==
  /\ prep.pc = "done"
  /\ {prep.df.rows[j].FTR : j \in 1..Len(prep.df.rows)} = {"H", "D", "A"}
  /\ resp.status = 200
  /\ resp.class = 2
  /\ resp.probabilities.away_win = 1000

\* ------------------------------------------------------------------------
\* Properties of the classification (SpecServe)
\* ------------------------------------------------------------------------
\* the percentages of a response in the order of the class indices
Returned == <<resp.probabilities.home_win, resp.probabilities.draw,
              resp.probabilities.away_win>>

Labels == <<"Home Win", "Draw", "Away Win">>

\* C15 as stated: the label of a successful response is the label at the
\* index of the largest returned percentage, the first such index where
\* several are largest (the argmax).
C15_LabelAtArgmax ==
  resp.status = 200 =>
    \E i \in 1..3 :
      /\ resp.prediction = Labels[i]
      /\ \A j \in 1..3 : Returned[j] <= Returned[i]
      /\ \A j \in 1..(i - 1) : Returned[j] < Returned[i]

\* C15, amended: no returned percentage is larger than the one of the
\* label; where rounding makes two returned percentages equal, the label can
\* be the one of either.
C15_LabelHasLargest ==
  resp.status = 200 =>
    \E i \in 1..3 :
      /\ resp.prediction = Labels[i]
      /\ \A j \in 1..3 : Returned[j] <= Returned[i]

\* C15 witness: an answer whose label is not the first one and has the one
\* largest percentage, from a distribution with three different values
C15_Witness ==
  /\ resp.status = 200
  /\ resp.prediction = "Away Win"
  /\ Returned[3] > Returned[1]
  /\ Returned[1] > Returned[2]
  /\ Returned[2] > 0

\* C16: the three returned percentages of a successful response, from a
\* distribution that adds up to 1, add up to 100.0 give or take 0.1.
C16_PercentagesSum ==
  (resp.status = 200 /\ resp.proba[1] + resp.proba[2] + resp.proba[3] = 10000)
    => LET total == Returned[1] + Returned[2] + Returned[3]
       IN total >= 999 /\ total <= 1001

\* C16 witness: an answer whose percentages add up to 100.1, two of them
\* rounded up
C16_Witness ==
  /\ resp.status = 200
  /\ resp.proba[1] + resp.proba[2] + resp.proba[3] = 10000
  /\ Returned[1] + Returned[2] + Returned[3] = 1001
  /\ Returned[1] * 10 > resp.proba[1]
  /\ Returned[2] * 10 > resp.proba[2]

====
